---- MODULE Spec2Model ----
(***************************************************************************)
(* Model of app.py (AI Resume Analyzer Pro): the PDF text extractor with   *)
(* its OCR fallback, the language normaliser, the two AI-service clients,  *)
(* the two report generators and the Streamlit shell that sequences them.  *)
(*                                                                         *)
(* Text is a sequence of characters; a character is a one-token string.    *)
(* Calls into libraries (pdfplumber, pdf2image, pytesseract, langdetect,   *)
(* googletrans, the Gemini client, fpdf, python-docx, the file system) are *)
(* modelled by their outcome, which the calling action draws from the set  *)
(* of outcomes the call can have (a value, or an exception).               *)
(***************************************************************************)
EXTENDS Integers, Sequences, FiniteSets, TLC

(* ---------------------------------------------------------------------- *)
(* Bounds                                                                  *)
(* ---------------------------------------------------------------------- *)
MaxPages == 2

(* ---------------------------------------------------------------------- *)
(* Text helpers (Python str semantics)                                     *)
(* ---------------------------------------------------------------------- *)
Whitespace == {" ", "\n"}

RECURSIVE lstrip(_)
lstrip(s) ==
    IF s = <<>> THEN <<>>
    ELSE IF Head(s) \in Whitespace THEN lstrip(Tail(s)) ELSE s

RECURSIVE rstrip(_)
rstrip(s) ==
    IF s = <<>> THEN <<>>
    ELSE IF s[Len(s)] \in Whitespace THEN rstrip(SubSeq(s, 1, Len(s) - 1)) ELSE s

\* Variant: str.rstrip() in place of str.strip()
strip_rstrip_only(s) == rstrip(s)

\* str.strip(): remove leading and trailing whitespace
strip(s) == rstrip(lstrip(s))

(* ---------------------------------------------------------------------- *)
(* Uploaded files and the scratch file temp.pdf                            *)
(* ---------------------------------------------------------------------- *)
\* A page of an uploaded PDF: has_text = FALSE models page.extract_text()
\* returning None; text is the page's text layer; ocr is what
\* pytesseract.image_to_string returns for the rasterized page.
PageKinds ==
    { [has_text |-> FALSE, text |-> <<>>,               ocr |-> <<"b">>],
      [has_text |-> FALSE, text |-> <<>>,               ocr |-> <<" ">>],
      [has_text |-> TRUE,  text |-> <<>>,               ocr |-> <<>>],
      [has_text |-> TRUE,  text |-> <<" ">>,            ocr |-> <<"b", "\n">>],
      [has_text |-> TRUE,  text |-> <<"a">>,            ocr |-> <<"b">>],
      [has_text |-> TRUE,  text |-> <<" ", "a", "\n">>, ocr |-> <<" ", "b">>] }

Uploads == UNION { [1..n -> PageKinds] : n \in 1..MaxPages }

\* Content of the fixed path "temp.pdf"
NoFile        == [kind |-> "absent",    pages |-> <<>>]
TruncatedFile == [kind |-> "truncated", pages |-> <<>>]
PdfFile(u)    == [kind |-> "pdf",       pages |-> u]

(* ---------------------------------------------------------------------- *)
(* extract_text_from_pdf                                                   *)
(* ---------------------------------------------------------------------- *)
\* with open("temp.pdf", "wb") as f: f.write(uploaded_file.getbuffer())
\* persist = "ok": written; "open_fails": open raises, the path keeps what it
\* held; "write_fails": the file was truncated by open and the write raised.
PersistOutcomes == {"ok", "open_fails", "write_fails"}

write_temp(uploaded_file, temp, persist) ==
    CASE persist = "ok"          -> PdfFile(uploaded_file)
      [] persist = "open_fails"  -> temp
      [] persist = "write_fails" -> TruncatedFile

\* for page in pdf.pages: page_text = page.extract_text();
\*     if page_text: text += page_text
\* failAt = 0: pdfplumber.open raises; failAt = k: extract_text raises on page k;
\* failAt > Len(pages): nothing raises.
RECURSIVE walk_pages(_, _, _, _)
walk_pages(pages, i, failAt, text) ==
    IF i > Len(pages) THEN [text |-> text, raised |-> FALSE]
    ELSE IF i = failAt THEN [text |-> text, raised |-> TRUE]
    ELSE LET page_text == pages[i]
         IN walk_pages(pages, i + 1, failAt,
                IF page_text.has_text /\ page_text.text # <<>>
                THEN text \o page_text.text ELSE text)

direct_extraction(temp, persist, failAt) ==
    IF persist # "ok" \/ failAt = 0 THEN [text |-> <<>>, raised |-> TRUE]
    ELSE walk_pages(temp.pages, 1, failAt, <<>>)

\* images = convert_from_path("temp.pdf")
\* for image in images: text += pytesseract.image_to_string(image) + "\n"
\* return text.strip()        except: return ""
RECURSIVE ocr_pages(_, _, _, _)
ocr_pages(pages, i, failAt, text) ==
    IF i > Len(pages) THEN [text |-> text, raised |-> FALSE]
    ELSE IF i = failAt THEN [text |-> text, raised |-> TRUE]
    ELSE ocr_pages(pages, i + 1, failAt, text \o pages[i].ocr \o <<"\n">>)

ocr_fallback(text, temp, failAt) ==
    LET r == IF temp.kind # "pdf" \/ failAt = 0
             THEN [text |-> text, raised |-> TRUE]
             ELSE ocr_pages(temp.pages, 1, failAt, text)
    IN [ret |-> IF r.raised THEN <<>> ELSE strip(r.text),
        temp |-> temp, ocr_entered |-> TRUE, ocr_read |-> temp,
        ocr_failed |-> r.raised]

extract_text_from_pdf(uploaded_file, temp, persist, plumbFail, ocrFail) ==
    LET temp1  == write_temp(uploaded_file, temp, persist)
        direct == direct_extraction(temp1, persist, plumbFail)
    IN IF ~direct.raised /\ strip(direct.text) # <<>>
       THEN [ret |-> strip(direct.text), temp |-> temp1, ocr_entered |-> FALSE,
             ocr_read |-> NoFile, ocr_failed |-> FALSE]
       ELSE ocr_fallback(direct.text, temp1, ocrFail)

(* ---------------------------------------------------------------------- *)
(* detect_and_translate                                                    *)
(* ---------------------------------------------------------------------- *)
\* The outcome of a call: a returned value, or an exception (ret is unused then)
Return(v) == [raised |-> FALSE, ret |-> v]
Raise     == [raised |-> TRUE,  ret |-> <<>>]

\* langdetect.detect(text): a language code, or raises
DetectOutcomes == {"raise", "en", "es"}
\* Translator().translate(...).text: a translated string, or raises
TranslateOutcomes == {"raise", "ok"}

\* What the translation service does to a text (not the identity)
translate_char(c) ==
    CASE c = "a" -> "x" [] c = "b" -> "y" [] c = "c" -> "z" [] OTHER -> c
translate_text(text) == [i \in 1..Len(text) |-> translate_char(text[i])]

\* the body of the try block, lines 49-54
detect_and_translate_try(text, target_lang, detected, translated) ==
    IF detected = "raise" THEN Raise
    ELSE IF detected # target_lang
         THEN IF translated = "raise" THEN Raise
              ELSE Return(translate_text(text))
         ELSE Return(text)

\* Variant: the try block without its except clause
detect_and_translate_uncaught(text, target_lang, detected, translated) ==
    detect_and_translate_try(text, target_lang, detected, translated)

\* try: ... except: return text
detect_and_translate(text, target_lang, detected, translated) ==
    LET r == detect_and_translate_try(text, target_lang, detected, translated)
    IN IF r.raised THEN Return(text) ELSE r

(* ---------------------------------------------------------------------- *)
(* analyze_resume                                                          *)
(* ---------------------------------------------------------------------- *)
\* "\n".join(lines)
RECURSIVE join_lines(_)
join_lines(lines) ==
    IF lines = <<>> THEN <<>>
    ELSE IF Len(lines) = 1 THEN lines[1]
    ELSE lines[1] \o <<"\n">> \o join_lines(Tail(lines))

\* Variant: "job_description is not None" in place of its truth value
job_description_is_not_none(job_description) == Len(job_description) >= 0

\* truth value of job_description; the shell passes the text area's string,
\* which is "" when nothing was pasted
job_description_given(job_description) == job_description # <<>>

analysis_prompt(translated_text, job_description, language) ==
    LET prompt ==
          << <<"Analyze this resume (originally in ", language, ") and provide:">>,
             <<"1. Skills Summary (Technical & Soft Skills)">>,
             <<"2. Missing Skills for Target Roles">>,
             <<"3. Improvement Recommendations (Courses/Certifications)">>,
             <<"4. Strengths & Weaknesses">>,
             <<"5. ", IF job_description_given(job_description)
                      THEN "Job Fit Analysis" ELSE "General Career Advice">>,
             <<>>,
             <<"Resume:">>,
             translated_text >>
    IN IF job_description_given(job_description)
       THEN prompt \o << <<>>,
                         <<"Job Description:">>,
                         job_description,
                         <<>>,
                         <<"Compare and highlight:">>,
                         <<"- Matching qualifications">>,
                         <<"- Missing requirements">>,
                         <<"- Suggested adaptations">> >>
       ELSE prompt

\* Reply texts of the AI service the model considers
AnalysisTexts ==
    { <<"d", "o", "n", "RSQUO", "t", "\n", "\n", " ", "\n",
        "EN_DASH", "LDQUO", "a", "RDQUO", "ELLIPSIS", "EM_DASH", "LSQUO">>,
      <<"BULLET", " ", "a">> }

\* model.generate_content(...).text: the reply text, or raises
GenOutcomes == {Raise} \cup {Return(t) : t \in AnalysisTexts}

\* gen: the outcome of model.generate_content("\n".join(prompt)).text
analyze_resume(resume_text, job_description, language, detected, translated, gen) ==
    LET dt == detect_and_translate(resume_text, "en", detected, translated)
    IN IF dt.raised
       THEN [raised |-> TRUE, ret |-> <<>>, requests |-> <<>>, dt |-> dt]
       ELSE LET request == join_lines(analysis_prompt(dt.ret, job_description, language))
            IN [raised |-> gen.raised, ret |-> gen.ret,
                requests |-> <<request>>, dt |-> dt]

(* ---------------------------------------------------------------------- *)
(* check_ats_compliance                                                    *)
(* ---------------------------------------------------------------------- *)
ResumeSlice == 2000

\* resume_text[:2000]
slice_resume(resume_text) ==
    SubSeq(resume_text, 1, IF Len(resume_text) < ResumeSlice
                           THEN Len(resume_text) ELSE ResumeSlice)

compliance_prompt(resume_text) ==
    join_lines(<< <<"Evaluate ATS (Applicant Tracking System) compliance:">>,
                  <<"1. Keyword Optimization">>,
                  <<"2. Proper Headings">>,
                  <<"3. No Graphics/Tables">>,
                  <<"4. Standard Fonts">>,
                  <<"5. Correct File Format">>,
                  <<"6. Skills Match">>,
                  <<"7. Contact Info Visibility">>,
                  <<>>,
                  <<"Return JSON with:">>,
                  <<"{\"strengths\": [str],">>,
                  <<"\"weaknesses\": [str],">>,
                  <<"\"suggestions\": [str]}">>,
                  <<>>,
                  <<"Resume: ">> \o slice_resume(resume_text) >>)

\* Python values json.loads can return
JNull       == [t |-> "null"]
JNum(n)     == [t |-> "num",  n |-> n]
JStr(s)     == [t |-> "str",  s |-> s]
JList(xs)   == [t |-> "list", items |-> xs]
JDict(f)    == [t |-> "dict", f |-> f]

\* The reply texts of the AI service (response.text) the model considers
ReplyTexts ==
    { "Here is the evaluation you asked for.",
      "Result: {\"strengths\": [], \"weaknesses\": [], \"suggestions\": []}",
      "[\"s\"]",
      "42",
      "null",
      "{\"strengths\": [\"s\"], \"weaknesses\": [\"w\"], \"suggestions\": [\"g\"]}",
      "{\"strengths\": [\"s\"], \"suggestions\": [\"g\"]}",
      "{\"strengths\": [\"s\"], \"weaknesses\": [\"w\"]}",
      "{\"strengths\": \"s\", \"weaknesses\": [], \"suggestions\": [\"g\"]}",
      "{\"strengths\": 1, \"weaknesses\": [], \"suggestions\": []}",
      "{\"strengths\": [1], \"weaknesses\": [], \"suggestions\": []}" }

\* json.loads(text): the parsed value, or raises on text that is not JSON
json_loads(text) ==
    CASE text = "[\"s\"]" -> Return(JList(<<JStr(<<"s">>)>>))
      [] text = "42"      -> Return(JNum(42))
      [] text = "null"    -> Return(JNull)
      [] text = "{\"strengths\": [\"s\"], \"weaknesses\": [\"w\"], \"suggestions\": [\"g\"]}"
           -> Return(JDict([strengths   |-> JList(<<JStr(<<"s">>)>>),
                            weaknesses  |-> JList(<<JStr(<<"w">>)>>),
                            suggestions |-> JList(<<JStr(<<"g">>)>>)]))
      [] text = "{\"strengths\": [\"s\"], \"suggestions\": [\"g\"]}"
           -> Return(JDict([strengths   |-> JList(<<JStr(<<"s">>)>>),
                            suggestions |-> JList(<<JStr(<<"g">>)>>)]))
      [] text = "{\"strengths\": [\"s\"], \"weaknesses\": [\"w\"]}"
           -> Return(JDict([strengths   |-> JList(<<JStr(<<"s">>)>>),
                            weaknesses  |-> JList(<<JStr(<<"w">>)>>)]))
      [] text = "{\"strengths\": \"s\", \"weaknesses\": [], \"suggestions\": [\"g\"]}"
           -> Return(JDict([strengths   |-> JStr(<<"s">>),
                            weaknesses  |-> JList(<<>>),
                            suggestions |-> JList(<<JStr(<<"g">>)>>)]))
      [] text = "{\"strengths\": 1, \"weaknesses\": [], \"suggestions\": []}"
           -> Return(JDict([strengths   |-> JNum(1),
                            weaknesses  |-> JList(<<>>),
                            suggestions |-> JList(<<>>)]))
      [] text = "{\"strengths\": [1], \"weaknesses\": [], \"suggestions\": []}"
           -> Return(JDict([strengths   |-> JList(<<JNum(1)>>),
                            weaknesses  |-> JList(<<>>),
                            suggestions |-> JList(<<>>)]))
      [] OTHER -> Raise

EmptyCompliance ==
    JDict([strengths |-> JList(<<>>), weaknesses |-> JList(<<>>),
           suggestions |-> JList(<<>>)])

\* reply = "raise" (the request failed), or the text of the reply
check_ats_compliance(resume_text, reply) ==
    LET parsed == IF reply = "raise" THEN Raise ELSE json_loads(reply)
    IN [ret |-> IF parsed.raised THEN EmptyCompliance ELSE parsed.ret,
        requests |-> <<compliance_prompt(resume_text)>>]

(* ---------------------------------------------------------------------- *)
(* Report generation                                                       *)
(* ---------------------------------------------------------------------- *)
\* Python None, as the value of pdf_path / docx_path
None == "<None>"

\* str.replace(k, v) for a one-character k
RECURSIVE replace(_, _, _)
replace(text, k, v) ==
    IF text = <<>> THEN <<>>
    ELSE (IF Head(text) = k THEN v ELSE <<Head(text)>>) \o replace(Tail(text), k, v)

replacements ==
    << <<"EN_DASH",  <<"-">> >>,
       <<"EM_DASH",  <<"-">> >>,
       <<"LSQUO",    <<"'">> >>,
       <<"RSQUO",    <<"'">> >>,
       <<"LDQUO",    <<"\"">> >>,
       <<"RDQUO",    <<"\"">> >>,
       <<"ELLIPSIS", <<".", ".", ".">> >> >>

RECURSIVE apply_replacements(_, _)
apply_replacements(text, i) ==
    IF i > Len(replacements) THEN text
    ELSE apply_replacements(replace(text, replacements[i][1], replacements[i][2]), i + 1)

clean_text_for_pdf(text) == apply_replacements(text, 1)

\* Characters of the model's alphabet outside Latin-1, the encoding of the
\* built-in Helvetica font
NonLatin1 ==
    {"EN_DASH", "EM_DASH", "LSQUO", "RSQUO", "LDQUO", "RDQUO", "ELLIPSIS", "BULLET"}

latin1_encodable(text) == \A i \in 1..Len(text) : text[i] \notin NonLatin1

\* Content of a report file on disk
AbsentFile      == [kind |-> "absent",   body |-> <<>>]
PartialFile     == [kind |-> "partial",  body |-> <<>>]
CompleteFile(b) == [kind |-> "complete", body |-> b]

\* Outcome of writing the output file: "ok"; "open_fails" (the file keeps what
\* it held); "write_fails" (opened for writing, then the write raised)
IoOutcomes == {"ok", "open_fails", "write_fails"}
FontOutcomes == {"ok", "fails"}
\* Where a text the base font cannot encode raises: in multi_cell, or in
\* output after the file was opened (depends on the fpdf release)
EncodeRaisesIn == {"multi_cell", "output"}

generate_pdf_report(content, filename, file, font, encIn, io) ==
    LET text      == IF font = "ok" THEN content ELSE clean_text_for_pdf(content)
        encodable == font = "ok" \/ latin1_encodable(text)
        failed(f) == [ret |-> None, file |-> f, text |-> text]
    IN IF ~encodable /\ encIn = "multi_cell" THEN failed(file)
       ELSE IF io = "open_fails" THEN failed(file)
       ELSE IF ~encodable \/ io = "write_fails" THEN failed(PartialFile)
       ELSE [ret |-> filename, file |-> CompleteFile(text), text |-> text]

\* content.split('\n')
RECURSIVE split_lines(_, _)
split_lines(text, line) ==
    IF text = <<>> THEN <<line>>
    ELSE IF Head(text) = "\n" THEN <<line>> \o split_lines(Tail(text), <<>>)
    ELSE split_lines(Tail(text), Append(line, Head(text)))

paragraphs(content) ==
    SelectSeq(split_lines(content, <<>>), LAMBDA line : strip(line) # <<>>)

generate_word_report(content, filename, file, io) ==
    LET doc == <<"Resume Analysis Report">> \o paragraphs(content)
    IN IF io = "open_fails" THEN [ret |-> None, file |-> file]
       ELSE IF io = "write_fails" THEN [ret |-> None, file |-> PartialFile]
       ELSE [ret |-> filename, file |-> CompleteFile(doc)]

(* ---------------------------------------------------------------------- *)
(* Shell: what lines 197-218 do with ats_data                              *)
(* ---------------------------------------------------------------------- *)
\* ats_data[key]
subscript(v, key) ==
    IF v.t = "dict" /\ key \in DOMAIN v.f THEN Return(v.f[key]) ELSE Raise

\* for item in v: st.write(f"- {item}")
iterable(v) == v.t \in {"list", "str"}

\* ', '.join(v): every item must be a str
RECURSIVE join_comma(_)
join_comma(items) ==
    IF items = <<>> THEN <<>>
    ELSE IF Len(items) = 1 THEN items[1]
    ELSE items[1] \o <<",", " ">> \o join_comma(Tail(items))

str_join(v) ==
    CASE v.t = "str"  -> Return(join_comma([i \in 1..Len(v.s) |-> <<v.s[i]>>]))
      [] v.t = "list" -> IF \A i \in 1..Len(v.items) : v.items[i].t = "str"
                         THEN Return(join_comma([i \in 1..Len(v.items) |-> v.items[i].s]))
                         ELSE Raise
      [] OTHER        -> Raise

\* lines 197-202
display_compliance(ats_data) ==
    LET strengths   == subscript(ats_data, "strengths")
        suggestions == subscript(ats_data, "suggestions")
    IN IF strengths.raised \/ ~iterable(strengths.ret) THEN Raise
       ELSE IF suggestions.raised \/ ~iterable(suggestions.ret) THEN Raise
       ELSE Return(<<>>)

\* lines 209-218
build_report(ats_data, analysis) ==
    LET strengths   == str_join(subscript(ats_data, "strengths").ret)
        suggestions == str_join(subscript(ats_data, "suggestions").ret)
    IN IF strengths.raised \/ suggestions.raised THEN Raise
       ELSE Return(join_lines(<< <<"RESUME ANALYSIS REPORT">>,
                                 <<"----------------------">>,
                                 <<"ATS COMPLIANCE ANALYSIS:">>,
                                 <<"Strengths: ">> \o strengths.ret,
                                 <<"Suggestions: ">> \o suggestions.ret,
                                 <<>>,
                                 <<"DETAILED ANALYSIS:">>,
                                 analysis >>))

\* Variant: os.path.exists(filename) in place of the returned path
offer_download_if_file_exists(path, file) == file.kind # "absent"

\* if pdf_path: / if docx_path:
offer_download(path, file) == path # None

(* ---------------------------------------------------------------------- *)
(* The Streamlit shell (lines 164-232) as a state machine                  *)
(* ---------------------------------------------------------------------- *)
VARIABLES
    pc,              \* the script's next step; "idle" between reruns
    uploaded_file,   \* the file uploader's value: the pages, <<>> when empty
    job_desc,        \* the text area's value
    language,        \* the sidebar's language selection
    temp,            \* content of temp.pdf
    report_pdf,      \* content of report.pdf
    report_docx,     \* content of report.docx
    resume_text,     \* script variables of the current rerun
    analysis,
    ats_data,
    report_content,
    pdf_path,
    docx_path,
    offered,         \* download buttons on the page
    abort,           \* the step whose uncaught exception ended the rerun, or "none"
    call             \* the function call the last step made, with its outcome

vars == << pc, uploaded_file, job_desc, language, temp, report_pdf, report_docx,
           resume_text, analysis, ats_data, report_content, pdf_path, docx_path,
           offered, abort, call >>

\* Widget values the model considers
JobDescriptions == { <<>>, <<"j">> }
Languages == {"en", "es"}
\* Uploads of the full pipeline: a one-page text PDF and a one-page scan
ShellUploads ==
    { << [has_text |-> TRUE,  text |-> <<"a">>, ocr |-> <<"b">>] >>,
      << [has_text |-> FALSE, text |-> <<>>,    ocr |-> <<"c">>] >> }

NoCall == [fn |-> "none"]

\* The script's variables before the script assigns them
Unassigned ==
    /\ resume_text' = <<>>
    /\ analysis' = <<>>
    /\ ats_data' = JNull
    /\ report_content' = <<>>
    /\ pdf_path' = None
    /\ docx_path' = None

Init ==
    /\ pc = "idle"
    /\ uploaded_file = <<>>
    /\ job_desc = <<>>
    /\ language = "en"
    /\ temp = NoFile
    /\ report_pdf = AbsentFile
    /\ report_docx = AbsentFile
    /\ resume_text = <<>>
    /\ analysis = <<>>
    /\ ats_data = JNull
    /\ report_content = <<>>
    /\ pdf_path = None
    /\ docx_path = None
    /\ offered = {}
    /\ abort = "none"
    /\ call = NoCall

\* Rerun with no file in the uploader: line 182 is false
RerunWithoutFile ==
    /\ pc = "idle"
    /\ pc' = "end"
    /\ uploaded_file' = <<>>
    /\ \E jd \in JobDescriptions, lang \in Languages :
          job_desc' = jd /\ language' = lang
    /\ offered' = {}
    /\ abort' = "none"
    /\ call' = NoCall
    /\ UNCHANGED << temp, report_pdf, report_docx, resume_text, analysis,
                    ats_data, report_content, pdf_path, docx_path >>

\* Rerun with a file in the uploader: lines 182-186; pressed is the value of
\* st.button("Run Full Analysis") in this rerun.  plumbFail and ocrFail say
\* where pdfplumber and the OCR step raise (see walk_pages, ocr_pages).
Rerun(files, jds, langs, buttons) ==
    /\ pc = "idle"
    /\ \E u \in files, jd \in jds, lang \in langs, pressed \in buttons,
          persist \in PersistOutcomes :
         \E plumbFail \in IF persist = "ok" THEN 0..(Len(u) + 1) ELSE {0} :
           \E ocrFail \in 0..(Len(write_temp(u, temp, persist).pages) + 1) :
             \E r \in {extract_text_from_pdf(u, temp, persist, plumbFail, ocrFail)} :
               /\ uploaded_file' = u
               /\ job_desc' = jd
               /\ language' = lang
               /\ temp' = r.temp
               /\ resume_text' = r.ret
               /\ call' = [fn |-> "extract_text_from_pdf", persist |-> persist,
                           direct_raised |->
                              direct_extraction(r.temp, persist, plumbFail).raised,
                           ocr_entered |-> r.ocr_entered, ocr_read |-> r.ocr_read,
                           ocr_failed |-> r.ocr_failed]
               /\ pc' = IF pressed THEN "analyze" ELSE "end"
    /\ offered' = {}
    /\ abort' = "none"
    /\ UNCHANGED << report_pdf, report_docx, analysis, ats_data, report_content,
                    pdf_path, docx_path >>

ScriptRun == Rerun(ShellUploads, JobDescriptions, Languages, BOOLEAN)

\* line 188
Analyze ==
    /\ pc = "analyze"
    /\ \E detected \in DetectOutcomes, gen \in GenOutcomes :
         \E translated \in IF detected \in {"raise", "en"}
                           THEN {"unused"} ELSE TranslateOutcomes :
           \E r \in {analyze_resume(resume_text, job_desc, language,
                                    detected, translated, gen)} :
               /\ call' = [fn |-> "analyze_resume", detected |-> detected,
                           translated |-> translated,
                           dt_raised |-> r.dt.raised, dt_ret |-> r.dt.ret,
                           requests |-> r.requests, raised |-> r.raised]
               /\ analysis' = r.ret
               /\ pc' = IF r.raised THEN "end" ELSE "compliance"
               /\ abort' = IF r.raised THEN "analyze_resume" ELSE "none"
    /\ UNCHANGED << uploaded_file, job_desc, language, temp, report_pdf,
                    report_docx, resume_text, ats_data, report_content,
                    pdf_path, docx_path, offered >>

\* line 189
Compliance ==
    /\ pc = "compliance"
    /\ \E reply \in ReplyTexts \cup {"raise"} :
          /\ ats_data' = check_ats_compliance(resume_text, reply).ret
          /\ call' = [fn |-> "check_ats_compliance", reply |-> reply]
    /\ pc' = "display"
    /\ UNCHANGED << uploaded_file, job_desc, language, temp, report_pdf,
                    report_docx, resume_text, analysis, report_content,
                    pdf_path, docx_path, offered, abort >>

\* lines 191-206
Display ==
    /\ pc = "display"
    /\ LET r == display_compliance(ats_data)
       IN /\ pc' = IF r.raised THEN "end" ELSE "report"
          /\ abort' = IF r.raised THEN "display" ELSE "none"
    /\ call' = NoCall
    /\ UNCHANGED << uploaded_file, job_desc, language, temp, report_pdf,
                    report_docx, resume_text, analysis, ats_data,
                    report_content, pdf_path, docx_path, offered >>

\* lines 209-218
BuildReport ==
    /\ pc = "report"
    /\ LET r == build_report(ats_data, analysis)
       IN /\ pc' = IF r.raised THEN "end" ELSE "export_pdf"
          /\ abort' = IF r.raised THEN "report" ELSE "none"
          /\ report_content' = r.ret
    /\ call' = NoCall
    /\ UNCHANGED << uploaded_file, job_desc, language, temp, report_pdf,
                    report_docx, resume_text, analysis, ats_data, pdf_path,
                    docx_path, offered >>

\* lines 223-226
ExportPdf ==
    /\ pc = "export_pdf"
    /\ \E font \in FontOutcomes, encIn \in EncodeRaisesIn, io \in IoOutcomes :
         \E r \in {generate_pdf_report(report_content, "report.pdf", report_pdf,
                                       font, encIn, io)} :
             /\ pdf_path' = r.ret
             /\ report_pdf' = r.file
             /\ call' = [fn |-> "generate_pdf_report", font |-> font, io |-> io]
             /\ offered' = IF offer_download(r.ret, r.file)
                           THEN offered \cup {"pdf"} ELSE offered
    /\ pc' = "export_word"
    /\ UNCHANGED << uploaded_file, job_desc, language, temp, report_docx,
                    resume_text, analysis, ats_data, report_content, docx_path,
                    abort >>

\* lines 229-232
ExportWord ==
    /\ pc = "export_word"
    /\ \E io \in IoOutcomes :
         \E r \in {generate_word_report(report_content, "report.docx",
                                        report_docx, io)} :
             /\ docx_path' = r.ret
             /\ report_docx' = r.file
             /\ call' = [fn |-> "generate_word_report", io |-> io]
             /\ offered' = IF offer_download(r.ret, r.file)
                           THEN offered \cup {"docx"} ELSE offered
    /\ pc' = "end"
    /\ UNCHANGED << uploaded_file, job_desc, language, temp, report_pdf,
                    resume_text, analysis, ats_data, report_content, pdf_path,
                    abort >>

\* The script run is over (its end was reached, or an exception stopped it):
\* the script's variables are gone, the page and the files stay
EndOfScript ==
    /\ pc = "end"
    /\ pc' = "idle"
    /\ Unassigned
    /\ call' = NoCall
    /\ UNCHANGED << uploaded_file, job_desc, language, temp, report_pdf,
                    report_docx, offered, abort >>

Next ==
    \/ RerunWithoutFile
    \/ ScriptRun
    \/ Analyze
    \/ Compliance
    \/ Display
    \/ BuildReport
    \/ ExportPdf
    \/ ExportWord
    \/ EndOfScript

Spec == Init /\ [][Next]_vars

\* The extractor alone, over every upload of at most MaxPages pages: the
\* uploader holds a file, and the script is rerun without the button pressed
InitExtract ==
    /\ pc = "idle"
    /\ uploaded_file \in Uploads
    /\ job_desc = <<>>
    /\ language = "en"
    /\ temp = NoFile
    /\ report_pdf = AbsentFile
    /\ report_docx = AbsentFile
    /\ resume_text = <<>>
    /\ analysis = <<>>
    /\ ats_data = JNull
    /\ report_content = <<>>
    /\ pdf_path = None
    /\ docx_path = None
    /\ offered = {}
    /\ abort = "none"
    /\ call = NoCall

ExtractOnly == Rerun({uploaded_file}, {job_desc}, {language}, {FALSE})

NextExtract ==
    \/ ExtractOnly
    \/ EndOfScript

SpecExtract == InitExtract /\ [][NextExtract]_vars

(* ---------------------------------------------------------------------- *)
(* Reference notions the properties are stated with                        *)
(* ---------------------------------------------------------------------- *)
Alphabet ==
    {"a", "b", "c", "x", "y", "z", " ", "\n"}

NonBlank(t) == \E i \in 1..Len(t) : t[i] \notin Whitespace

\* r is t without its leading and trailing whitespace
IsTrimOf(r, t) ==
    \E i \in 0..Len(t) :
       /\ i + Len(r) <= Len(t)
       /\ r = SubSeq(t, i + 1, i + Len(r))
       /\ \A k \in 1..i : t[k] \in Whitespace
       /\ \A k \in (i + Len(r) + 1)..Len(t) : t[k] \in Whitespace
       /\ r # <<>> => (r[1] \notin Whitespace /\ r[Len(r)] \notin Whitespace)

\* The text layers of the pages of u, in page order
RECURSIVE LayerText(_)
LayerText(u) ==
    IF u = <<>> THEN <<>>
    ELSE (IF Head(u).has_text THEN Head(u).text ELSE <<>>) \o LayerText(Tail(u))

\* The OCR outputs of the pages of u, in page order, each followed by the separator
RECURSIVE OcrText(_)
OcrText(u) ==
    IF u = <<>> THEN <<>>
    ELSE Head(u).ocr \o <<"\n">> \o OcrText(Tail(u))

\* The characters a file holds, in its text layer or in its page images
FileChars(u) ==
    UNION { {u[p].text[k] : k \in 1..Len(u[p].text)} \cup
            {u[p].ocr[k] : k \in 1..Len(u[p].ocr)} : p \in 1..Len(u) }

Extracted == call.fn = "extract_text_from_pdf"

(* ---------------------------------------------------------------------- *)
(* Properties                                                              *)
(* ---------------------------------------------------------------------- *)

\* C1: check_ats_compliance always returns a record with exactly the three
\* fields strengths, weaknesses and suggestions, each of them a list, whatever
\* the AI service replied.
C1_ComplianceIsThreeLists ==
    call.fn = "check_ats_compliance" =>
        IF ats_data.t # "dict" THEN FALSE
        ELSE /\ DOMAIN ats_data.f = {"strengths", "weaknesses", "suggestions"}
             /\ \A k \in DOMAIN ats_data.f : ats_data.f[k].t = "list"

\* C2: the only step whose failure ends a run with an uncaught error is the
\* analysis-service call.
C2_OnlyAnalysisAborts ==
    abort # "none" => abort = "analyze_resume"

\* C3: when the page walk completes and the concatenated text layer of the
\* uploaded PDF is non-blank, extract_text_from_pdf returns that text trimmed
\* and does not enter the OCR path.
C3_TextLayerPreferred ==
    (/\ Extracted
     /\ call.persist = "ok"
     /\ ~call.direct_raised
     /\ NonBlank(LayerText(uploaded_file)))
    => /\ IsTrimOf(resume_text, LayerText(uploaded_file))
       /\ ~call.ocr_entered

\* C3 witness: a PDF of several pages whose text layer has surrounding
\* whitespace was returned trimmed, without OCR.
C3_Witness ==
    /\ Extracted
    /\ call.persist = "ok"
    /\ ~call.direct_raised
    /\ ~call.ocr_entered
    /\ Len(uploaded_file) >= 2
    /\ resume_text # <<>>
    /\ Head(LayerText(uploaded_file)) \in Whitespace
    /\ Len(resume_text) < Len(LayerText(uploaded_file))

\* C4: when structured extraction yields no usable text (blank, or it raised),
\* extract_text_from_pdf returns exactly the per-page OCR outputs joined in
\* page order and trimmed, and the empty string when OCR fails.
C4_FallbackReturnsOnlyOcr ==
    (/\ Extracted
     /\ call.direct_raised \/ ~NonBlank(LayerText(uploaded_file)))
    => IF call.ocr_failed THEN resume_text = <<>>
       ELSE IsTrimOf(resume_text, OcrText(uploaded_file))

\* C5: no scratch file exists after a call of extract_text_from_pdf.
C5_ScratchFileRemoved ==
    Extracted => temp.kind = "absent"

\* C6: a download of a format is offered only if the generator of this run
\* returned the filename after writing the complete file; a generator whose
\* write fails returns None and no download of that format is offered.
C6_DownloadOnlyOfThisRunsFile ==
    pc # "idle" =>
      /\ "pdf" \in offered =>
            /\ pdf_path = "report.pdf"
            /\ report_pdf.kind = "complete"
            /\ report_pdf.body \in {report_content, clean_text_for_pdf(report_content)}
      /\ "docx" \in offered =>
            /\ docx_path = "report.docx"
            /\ report_docx =
                 CompleteFile(<<"Resume Analysis Report">> \o paragraphs(report_content))
      /\ (call.fn = "generate_pdf_report" /\ call.io # "ok") =>
            (pdf_path = None /\ "pdf" \notin offered)
      /\ (call.fn = "generate_word_report" /\ call.io # "ok") =>
            (docx_path = None /\ "docx" \notin offered)

\* C6 witness: the PDF generator failed while a complete report.pdf of an
\* earlier run is on disk; no PDF download is offered, the Word one is.
C6_Witness ==
    /\ pc = "end"
    /\ pdf_path = None
    /\ report_pdf.kind = "complete"
    /\ offered = {"docx"}

\* C7: whenever the font load fails, the fallback writes the complete report
\* with ASCII punctuation and returns the filename, for every report content
\* (the output file itself being writable).
C7_FallbackAlwaysCompletes ==
    (call.fn = "generate_pdf_report" /\ call.font = "fails" /\ call.io = "ok")
    => /\ pdf_path = "report.pdf"
       /\ report_pdf = CompleteFile(clean_text_for_pdf(report_content))

\* C8: detect_and_translate never raises, returns a string, and returns its
\* input unchanged when detection raises, translation raises or the detected
\* language is the target language.
C8_NormaliserNeverRaises ==
    call.fn = "analyze_resume" =>
      /\ ~call.dt_raised
      /\ call.dt_ret \in Seq(Alphabet)
      /\ (call.detected \in {"raise", "en"} \/ call.translated = "raise")
            => call.dt_ret = resume_text

\* C8 witness: translation raised on a non-empty text, which came back unchanged.
C8_Witness ==
    /\ call.fn = "analyze_resume"
    /\ call.detected = "es"
    /\ call.translated = "raise"
    /\ resume_text # <<>>
    /\ call.dt_ret = resume_text

\* C9: analyze_resume sends one request: the fixed instruction lines, with item
\* 5 the job-fit line exactly when a job description was given, then the resume
\* text, then the comparison section exactly when a job description was given.
C9_PromptLayout ==
    call.fn = "analyze_resume" =>
      /\ Len(call.requests) = 1
      /\ call.requests[1] =
           << "Analyze this resume (originally in ", language, ") and provide:", "\n",
              "1. Skills Summary (Technical & Soft Skills)", "\n",
              "2. Missing Skills for Target Roles", "\n",
              "3. Improvement Recommendations (Courses/Certifications)", "\n",
              "4. Strengths & Weaknesses", "\n",
              "5. ", IF job_desc = <<>> THEN "General Career Advice"
                                        ELSE "Job Fit Analysis", "\n",
              "\n",
              "Resume:", "\n" >>
           \o call.dt_ret
           \o IF job_desc = <<>> THEN <<>>
              ELSE << "\n", "\n", "Job Description:", "\n" >> \o job_desc \o
                   << "\n", "\n", "Compare and highlight:", "\n",
                      "- Matching qualifications", "\n",
                      "- Missing requirements", "\n",
                      "- Suggested adaptations" >>

\* C9 witness: a request with a job description and a translated resume.
C9_Witness ==
    /\ call.fn = "analyze_resume"
    /\ job_desc # <<>>
    /\ call.dt_ret # resume_text
    /\ Len(call.requests) = 1

\* C10: the text a call of extract_text_from_pdf returns holds only characters
\* of the file uploaded to that call (and page separators).
C10_TextOnlyFromThisUpload ==
    Extracted =>
        \A i \in 1..Len(resume_text) :
            resume_text[i] \in FileChars(uploaded_file) \cup {"\n"}

====
